---- MODULE Spec2Model ----
(***************************************************************************)
(* TimeTree -> Discord notification script.                                *)
(*                                                                         *)
(* One run of main(): sign in, select the calendar, fetch and filter       *)
(* today's and tomorrow's events, post the daily digest and, on Monday,    *)
(* fetch the week's events and post the weekly digest.  Every network      *)
(* call is one step whose answer is chosen by the environment.             *)
(*                                                                         *)
(* Conventions of the model                                                *)
(*  - A JSON / Python value is a record tagged by its field j.             *)
(*  - An instant (datetime) is [j |-> "dt", sec, usec]: seconds and        *)
(*    microseconds of local time since the epoch; the local zone is taken  *)
(*    to be UTC and every instant of the model lies in January 1970.       *)
(*  - Text is a TLA+ string.  The non-ASCII markers of the source are      *)
(*    written as ASCII stand-ins of the same length in characters.         *)
(***************************************************************************)
EXTENDS Integers, Sequences, FiniteSets, TLC

VARIABLES
    pc,              \* position of the run
    list_mode,       \* sys.argv[1] in ["--list", "-l"]
    now,             \* datetime.now() taken at the start of main()
    session_id,      \* TimeTreeScraper.session_id
    cookie,          \* the _session_id cookie of TimeTreeScraper.session
    calendar_id,     \* config["timetree_calendar_id"]
    frames,          \* the `events` lists of the active get_events call chain
    cursor,          \* the since argument of the pending continuation call
    requests,        \* every request put on the wire, in order
    resp,            \* the answer to the last request
    chunks,          \* the event arrays the active get_events call chain received
    all_events,      \* the list the last get_events call returned
    today_events,    \* main(): today_events
    tomorrow_events, \* main(): tomorrow_events
    week_events,     \* main(): week_events
    filtered,        \* result of the date filter applied on its own
    embeds,          \* the embeds of the last payload built
    printed,         \* progress messages written to the console
    error,           \* type of the exception that ended the run or call
    exit_code        \* process exit status, -1 while running

vars == <<pc, list_mode, now, session_id, cookie, calendar_id, frames, cursor, requests,
          resp, chunks, all_events, today_events, tomorrow_events, week_events,
          filtered, embeds, printed, error, exit_code>>

(***************************************************************************)
(* Bounds of the model.                                                    *)
(***************************************************************************)
\* sync calls one get_events call may make before the server stops chunking
MaxCalls == 3
\* raw records in one sync response of the fetch protocol
MaxChunk == 1
\* raw records in one sync response when normalization is exercised
MaxBatch == 2
\* events in a list handed to the date filter
MaxFilter == 2
\* events in a list handed to a formatter
MaxFormat == 2

(***************************************************************************)
(* Values.                                                                 *)
(***************************************************************************)
JAbsent == [j |-> "absent"]                 \* key not in the dict
JNull == [j |-> "null"]                     \* None / JSON null
JStr(s) == [j |-> "str", s |-> s]
JNum(n) == [j |-> "num", n |-> n]
JBool(b) == [j |-> "bool", b |-> b]
\* a number whose /1000 lies beyond year 9999 but within time_t:
\* datetime.fromtimestamp raises ValueError
JBig == [j |-> "big"]
\* a number whose /1000 lies beyond the platform time_t:
\* datetime.fromtimestamp raises OverflowError (or OSError)
JHuge == [j |-> "huge"]
Dt(s, u) == [j |-> "dt", sec |-> s, usec |-> u]

\* dict.get(key): a missing key reads as None
Get(v) == IF v = JAbsent THEN JNull ELSE v

\* dict.get(key, default)
GetDefault(v, d) == IF v = JAbsent THEN d ELSE v

\* Python truth value
Truthy(v) ==
    CASE v.j = "absent" -> FALSE
      [] v.j = "null" -> FALSE
      [] v.j = "str" -> v.s # ""
      [] v.j = "num" -> v.n # 0
      [] v.j = "bool" -> v.b
      [] OTHER -> TRUE

SecondsPerDay == 86400

\* datetime comparison
DtLess(a, b) == a.sec < b.sec \/ (a.sec = b.sec /\ a.usec < b.usec)
DtLeq(a, b) == a = b \/ DtLess(a, b)

\* dt.replace(hour=0, minute=0, second=0, microsecond=0)
Midnight(dt) == Dt((dt.sec \div SecondsPerDay) * SecondsPerDay, 0)

\* dt + timedelta(days=n)
AddDays(dt, n) == Dt(dt.sec + n * SecondsPerDay, dt.usec)

\* dt.date(), as the number of days since the epoch
DateOf(dt) == dt.sec \div SecondsPerDay

(***************************************************************************)
(* Normalization of a raw event record (timetree_scraper.py).              *)
(***************************************************************************)
\* datetime.fromtimestamp(ms / 1000): the instant, or the exception raised
FromTimestampMs(v) ==
    CASE v.j = "num" ->
            [ok |-> TRUE, exc |-> "", val |-> Dt(v.n \div 1000, (v.n % 1000) * 1000)]
      [] v.j = "bool" ->
            [ok |-> TRUE, exc |-> "", val |-> Dt(0, IF v.b THEN 1000 ELSE 0)]
      [] v.j = "big" -> [ok |-> FALSE, exc |-> "ValueError", val |-> JNull]
      [] v.j = "huge" -> [ok |-> FALSE, exc |-> "OverflowError", val |-> JNull]
      [] OTHER -> [ok |-> FALSE, exc |-> "TypeError", val |-> JNull]

\* if ev.get(key): try: event_data[k] = fromtimestamp(...)
\*                 except (TypeError, ValueError): event_data[k] = None
\* The result is [exc, val]: exc names an exception the except clause lets
\* through, val is what event_data[k] holds (JAbsent: the key was never set).
ParseTime(v) ==
    IF ~Truthy(Get(v)) THEN [exc |-> "", val |-> JAbsent]
    ELSE LET r == FromTimestampMs(v)
         IN IF r.ok THEN [exc |-> "", val |-> r.val]
            ELSE IF r.exc \in {"TypeError", "ValueError"}
                 THEN [exc |-> "", val |-> JNull]
                 ELSE [exc |-> r.exc, val |-> JAbsent]

Untitled == JStr("Untitled")

\* the body of the for loop of get_events: the event, or the exception
\* that leaves the loop
NormalizeEvent(ev) ==
    LET s == ParseTime(ev.start_at)
        e == ParseTime(ev.end_at)
        data == [id |-> Get(ev.id),
                 title |-> GetDefault(ev.title, Untitled),
                 all_day |-> GetDefault(ev.all_day, JBool(FALSE)),
                 location |-> Get(ev.location),
                 description |-> Get(ev.note),
                 color |-> Get(ev.label_id),
                 start |-> s.val,
                 end |-> e.val]
    IN IF s.exc # "" THEN [exc |-> s.exc, event |-> data]
       ELSE IF e.exc # "" THEN [exc |-> e.exc, event |-> data]
       ELSE [exc |-> "", event |-> data]

\* the for loop over data.get("events", []): the list built, or the first
\* exception raised
RECURSIVE NormalizeBatch(_)
NormalizeBatch(raw) ==
    IF raw = <<>> THEN [exc |-> "", events |-> <<>>]
    ELSE LET h == NormalizeEvent(Head(raw))
         IN IF h.exc # "" THEN [exc |-> h.exc, events |-> <<>>]
            ELSE LET t == NormalizeBatch(Tail(raw))
                 IN IF t.exc # "" THEN t
                    ELSE [exc |-> "", events |-> <<h.event>> \o t.events]

\* the same loop as copied into _get_events_recursive
NormalizeBatchRec(raw) == NormalizeBatch(raw)

(***************************************************************************)
(* The date filter (main.py get_events_for_date, and the copy inside       *)
(* timetree_scraper.py get_upcoming_events).                               *)
(***************************************************************************)
\* the loop body of get_events_for_date without the all-day branch
KeepForDateStartOnly(event, start, end) ==
    LET event_start == Get(event.start)
    IN Truthy(event_start) /\ DtLeq(start, event_start) /\ DtLess(event_start, end)

\* the body of the loop of get_events_for_date: is the event appended?
KeepForDate(event, start, end) ==
    LET event_start == Get(event.start)
        event_end == Get(event.end)
    IN IF Truthy(event_start)
       THEN IF DtLeq(start, event_start) /\ DtLess(event_start, end)
            THEN TRUE
            ELSE IF Truthy(Get(event.all_day)) /\ DtLeq(event_start, end)
                 THEN Truthy(event_end) /\ DtLess(start, event_end)
                 ELSE FALSE
       ELSE FALSE

\* get_events_for_date after scraper.get_events has returned all
GetEventsForDate(all, target_date) ==
    LET start == Midnight(target_date)
        end == AddDays(start, 1)
    IN SelectSeq(all, LAMBDA event : KeepForDate(event, start, end))

\* the body of the filter loop of get_upcoming_events
KeepUpcoming(event, start_date, end_date) ==
    LET event_start == Get(event.start)
        event_end == Get(event.end)
    IN IF Truthy(event_start)
       THEN IF DtLeq(start_date, event_start) /\ DtLess(event_start, end_date)
            THEN TRUE
            ELSE IF Truthy(Get(event.all_day)) /\ DtLeq(event_start, end_date)
                 THEN Truthy(event_end) /\ DtLess(start_date, event_end)
                 ELSE FALSE
       ELSE FALSE

\* get_upcoming_events after self.get_events has returned all
FilterUpcoming(all, at, days) ==
    LET start_date == Midnight(at)
        end_date == AddDays(start_date, days)
    IN SelectSeq(all, LAMBDA event : KeepUpcoming(event, start_date, end_date))

\* days=7 at the call in main()
WeekDays == 7

(***************************************************************************)
(* Formatting (discord_notifier.py).                                       *)
(***************************************************************************)
Bullet == "*"          \* stands for the one-character bullet U+2022
AllDayMarker == "AD"   \* stands for the two-character all-day marker
Pin == "@"             \* stands for the one-character pin emoji
Ellipsis == "..."
NoEventsText == "**no events**"

Pad2(n) == IF n < 10 THEN "0" \o ToString(n) ELSE ToString(n)

\* _format_time: dt.strftime("%H:%M")
FormatTime(dt) ==
    LET s == dt.sec % SecondsPerDay
    IN Pad2(s \div 3600) \o ":" \o Pad2((s % 3600) \div 60)

Weekdays == <<"Mon", "Tue", "Wed", "Thu", "Fri", "Sat", "Sun">>

\* dt.weekday(): Monday is 0; 1970-01-01 was a Thursday
Weekday(dt) == (DateOf(dt) + 3) % 7

\* _format_date: month, day of month and weekday (January 1970)
FormatDate(dt) ==
    "1m" \o ToString(DateOf(dt) + 1) \o "d (" \o Weekdays[Weekday(dt) + 1] \o ")"

\* strftime('%Y/%m/%d %H:%M') + the "updated" suffix (January 1970)
Footer(dt) ==
    [text |-> "1970/01/" \o Pad2(DateOf(dt) + 1) \o " " \o FormatTime(dt) \o " updated"]

\* _format_event
FormatEvent(event) ==
    LET title == GetDefault(event.title, Untitled).s
        first ==
            IF Truthy(Get(event.all_day))
            THEN Bullet \o " " \o AllDayMarker \o " - " \o title
            ELSE IF Truthy(Get(event.start)) /\ Truthy(Get(event.end))
                 THEN Bullet \o " " \o FormatTime(event.start) \o " - "
                      \o FormatTime(event.end) \o " " \o title
                 ELSE Bullet \o " " \o title
    IN IF Truthy(Get(event.location))
       THEN first \o "\n" \o "  " \o Pin \o " " \o event.location.s
       ELSE first

\* "\n".join(self._format_event(e) for e in events)
RECURSIVE JoinEvents(_)
JoinEvents(events) ==
    IF events = <<>> THEN ""
    ELSE IF Len(events) = 1 THEN FormatEvent(events[1])
    ELSE FormatEvent(Head(events)) \o "\n" \o JoinEvents(Tail(events))

\* Discord's limit on a field value, and the length kept before the marker
FieldLimit == 1024
FieldKeep == 1020

\* the truncation that fills the limit: field_value[:1021] + "..."
TruncateFieldToLimit(field_value) ==
    IF Len(field_value) > FieldLimit
    THEN SubSeq(field_value, 1, FieldLimit - Len(Ellipsis)) \o Ellipsis
    ELSE field_value

\* if len(field_value) > 1024: field_value = field_value[:1020] + "..."
TruncateField(field_value) ==
    IF Len(field_value) > FieldLimit
    THEN SubSeq(field_value, 1, FieldKeep) \o Ellipsis
    ELSE field_value

AccentColor == 5793266     \* 0x5865F2
SuccessColor == 5763719    \* 0x57F287

\* one block of _create_daily_embeds
DailyBlock(title, events, current_date) ==
    IF events # <<>>
    THEN [title |-> title,
          color |-> AccentColor,
          fields |-> <<[name |-> "events",
                        value |-> TruncateField(JoinEvents(events)),
                        inline |-> FALSE]>>,
          footer |-> Footer(current_date)]
    ELSE [title |-> title,
          description |-> NoEventsText,
          color |-> SuccessColor,
          footer |-> Footer(current_date)]

\* _create_daily_embeds with tomorrow's branch testing today's list
CreateDailyEmbedsCoupled(today, tomorrow, current_date, tomorrow_date) ==
    << DailyBlock("Today - " \o FormatDate(current_date), today, current_date),
       IF today # <<>>
       THEN DailyBlock("Tomorrow - " \o FormatDate(tomorrow_date), tomorrow, current_date)
       ELSE DailyBlock("Tomorrow - " \o FormatDate(tomorrow_date), <<>>, current_date) >>

\* _create_daily_embeds
CreateDailyEmbeds(today, tomorrow, current_date, tomorrow_date) ==
    << DailyBlock("Today - " \o FormatDate(current_date), today, current_date),
       DailyBlock("Tomorrow - " \o FormatDate(tomorrow_date), tomorrow, current_date) >>

\* datetime.min, the sort key of an event without a start
DtMin == [j |-> "dt", sec |-> -2147483647, usec |-> 0]

\* the sort key with datetime.max for an event without a start
SortKeyLast(event) ==
    IF Truthy(Get(event.start)) THEN event.start
    ELSE [j |-> "dt", sec |-> 2147483647, usec |-> 999999]

\* key=lambda e: e.get("start") or datetime.min
SortKey(event) == IF Truthy(Get(event.start)) THEN event.start ELSE DtMin

\* sorted(events, key=...): a stable sort
RECURSIVE InsertSorted(_, _)
InsertSorted(sorted, event) ==
    IF sorted = <<>> THEN <<event>>
    ELSE IF DtLess(SortKey(event), SortKey(Head(sorted)))
         THEN <<event>> \o sorted
         ELSE <<Head(sorted)>> \o InsertSorted(Tail(sorted), event)

RECURSIVE SortedByStart(_)
SortedByStart(events) ==
    IF events = <<>> THEN <<>>
    ELSE InsertSorted(SortedByStart(SubSeq(events, 1, Len(events) - 1)),
                      events[Len(events)])

\* the key of the bucket an event is put in
DateKey(event, at) ==
    IF Truthy(Get(event.start)) THEN DateOf(event.start) ELSE DateOf(at)

\* sorted(events_by_date.items()): the dates from index lo on, ascending
RECURSIVE DateFields(_, _, _)
DateFields(sorted, dates, at) ==
    IF dates = {} THEN <<>>
    ELSE LET date == CHOOSE d \in dates : \A o \in dates : d <= o
             day_events == SelectSeq(sorted, LAMBDA e : DateKey(e, at) = date)
         IN <<[name |-> "date " \o FormatDate(Dt(date * SecondsPerDay, 0)),
               value |-> TruncateField(JoinEvents(day_events)),
               inline |-> FALSE]>>
            \o DateFields(sorted, dates \ {date}, at)

\* _create_embeds; at is datetime.now() at the call
CreateEmbeds(events, at) ==
    IF events = <<>> THEN <<>>
    ELSE LET sorted == SortedByStart(events)
             dates == {DateKey(sorted[i], at) : i \in 1..Len(sorted)}
         IN <<[title |-> "This week",
               color |-> AccentColor,
               fields |-> DateFields(sorted, dates, at),
               footer |-> Footer(at)]>>

\* main(): the payload of the weekly POST
WeeklyEmbeds(events, at) ==
    LET made == CreateEmbeds(events, at)
        week_end == AddDays(at, 6)
        week_title == "Week " \o FormatDate(at) \o " - " \o FormatDate(week_end)
    IN IF made # <<>>
       THEN <<[made[1] EXCEPT !.title = week_title]>>
       ELSE <<[title |-> week_title,
               description |-> "no events",
               color |-> SuccessColor,
               footer |-> Footer(at)]>>

(***************************************************************************)
(* The answers of the two remote services.                                 *)
(***************************************************************************)
\* kind "error": the transport raised requests.RequestException;
\* kind "http": a response with a status; json says whether response.json()
\* parses the body; the other fields are the parts of the body (or the
\* cookie) the callers read.
Response(kind, status, json) ==
    [kind |-> kind, status |-> status, json |-> json, events |-> <<>>,
     chunk |-> JAbsent, since |-> JAbsent, cookie |-> JAbsent,
     calendars |-> <<>>]

NoResponse == Response("none", 0, FALSE)
TransportError == Response("error", 0, FALSE)

\* the three ways a call to a JSON endpoint fails
FailedResponses ==
    {TransportError, Response("http", 500, FALSE), Response("http", 200, FALSE)}

IsFailure(r) == r.kind = "error" \/ r.status # 200 \/ ~r.json

SyncResponses(batches, flags, sinces) ==
    FailedResponses \cup
    {[Response("http", 200, TRUE) EXCEPT !.events = b, !.chunk = c, !.since = s] :
        b \in batches, c \in flags, s \in sinces}

\* sequences over S of length at most n
SeqUpTo(S, n) == UNION {[1..k -> S] : k \in 0..n}

(***************************************************************************)
(* get_events and _get_events_recursive, one sync call at a time.          *)
(* The result of handling one answer is                                    *)
(*   [act |-> "raise", exc]            the call chain is left by exc       *)
(*   [act |-> "return", events]        this call returns events            *)
(*   [act |-> "recurse", events, since] this call holds events and calls   *)
(*                                      _get_events_recursive(since)       *)
(***************************************************************************)
Outcome(act, exc, events, since) ==
    [act |-> act, exc |-> exc, events |-> events, since |-> since]

\* get_events, up to its return or its call of _get_events_recursive
GetEventsStep(r) ==
    IF r.kind = "error" THEN Outcome("raise", "TimeTreeScraperError", <<>>, JAbsent)
    ELSE IF r.status # 200 THEN Outcome("raise", "TimeTreeScraperError", <<>>, JAbsent)
    ELSE IF ~r.json THEN Outcome("raise", "TimeTreeScraperError", <<>>, JAbsent)
    ELSE LET n == NormalizeBatch(r.events)
         IN IF n.exc # "" THEN Outcome("raise", n.exc, <<>>, JAbsent)
            ELSE IF r.chunk = JBool(TRUE) /\ Truthy(Get(r.since))
                 THEN Outcome("recurse", "", n.events, Get(r.since))
                 ELSE Outcome("return", "", n.events, JAbsent)

\* _get_events_recursive with the failure handling of get_events
RecursiveStepRaising(r) ==
    IF IsFailure(r) THEN Outcome("raise", "TimeTreeScraperError", <<>>, JAbsent)
    ELSE LET n == NormalizeBatchRec(r.events)
         IN IF n.exc # "" THEN Outcome("raise", n.exc, <<>>, JAbsent)
            ELSE IF r.chunk = JBool(TRUE)
                 THEN Outcome("recurse", "", n.events, Get(r.since))
                 ELSE Outcome("return", "", n.events, JAbsent)

\* _get_events_recursive, up to its return or its recursive call
RecursiveStep(r) ==
    IF r.kind = "error" THEN Outcome("return", "", <<>>, JAbsent)
    ELSE IF r.status # 200 THEN Outcome("return", "", <<>>, JAbsent)
    ELSE IF ~r.json THEN Outcome("return", "", <<>>, JAbsent)
    ELSE LET n == NormalizeBatchRec(r.events)
         IN IF n.exc # "" THEN Outcome("raise", n.exc, <<>>, JAbsent)
            ELSE IF r.chunk = JBool(TRUE)
                 THEN Outcome("recurse", "", n.events, Get(r.since))
                 ELSE Outcome("return", "", n.events, JAbsent)

\* events.extend(self._get_events_recursive(...)) on the way back up the
\* call chain: fs[k] is the list held by the k-th call, the last has returned
RECURSIVE Unwind(_)
Unwind(fs) ==
    IF Len(fs) = 1 THEN fs[1]
    ELSE Unwind(Append(SubSeq(fs, 1, Len(fs) - 2), fs[Len(fs) - 1] \o fs[Len(fs)]))

FetchPcs == {"today", "tomorrow", "week", "get_events", "upcoming"}

\* an exception reaches the handlers of main() (or, with --list, the
\* interpreter): the process exits with status 1
Fail(exc) ==
    /\ pc' = "exit"
    /\ error' = exc
    /\ exit_code' = 1

\* an exception leaves get_events
FetchRaise(exc) ==
    /\ frames' = <<>>
    /\ cursor' = JAbsent
    /\ IF pc \in {"get_events", "upcoming"}
       THEN pc' = "raised" /\ error' = exc /\ exit_code' = exit_code
       ELSE Fail(exc)
    /\ UNCHANGED <<all_events, today_events, tomorrow_events, week_events, printed>>

\* get_events returns all to its caller, which filters it
FetchReturn(all) ==
    /\ frames' = <<>>
    /\ cursor' = JAbsent
    /\ all_events' = all
    /\ UNCHANGED <<error, exit_code>>
    /\ CASE pc = "today" ->
              /\ today_events' = GetEventsForDate(all, now)
              /\ pc' = "tomorrow"
              /\ UNCHANGED <<tomorrow_events, week_events, printed>>
         [] pc = "tomorrow" ->
              /\ tomorrow_events' = GetEventsForDate(all, AddDays(now, 1))
              /\ pc' = "daily"
              /\ UNCHANGED <<today_events, week_events, printed>>
         [] pc = "week" ->
              /\ week_events' = FilterUpcoming(all, now, WeekDays)
              /\ pc' = "weekly_post"
              /\ UNCHANGED <<today_events, tomorrow_events, printed>>
         [] pc = "get_events" ->
              /\ pc' = "returned"
              /\ UNCHANGED <<today_events, tomorrow_events, week_events, printed>>
         [] pc = "upcoming" ->
              /\ week_events' = FilterUpcoming(all, now, WeekDays)
              /\ pc' = "returned"
              /\ UNCHANGED <<today_events, tomorrow_events, printed>>

\* One sync call of the active get_events call chain and everything that
\* follows it up to the next network call.  R is the set of answers the
\* server may give; it sets the chunk flag on at most cap - 1 answers in a row.
Sync(R, cap) ==
    /\ pc \in FetchPcs
    /\ \E r \in R :
        LET o == IF frames = <<>> THEN GetEventsStep(r) ELSE RecursiveStep(r)
        IN /\ resp' = r
           /\ requests' = Append(requests,
                              [op |-> "sync", calendar |-> calendar_id, since |-> cursor,
                               cookie |-> cookie])
           /\ chunks' = IF IsFailure(r) THEN (IF frames = <<>> THEN <<>> ELSE chunks)
                        ELSE (IF frames = <<>> THEN <<r.events>>
                              ELSE Append(chunks, r.events))
           /\ UNCHANGED <<list_mode, now, session_id, cookie, calendar_id,
                          filtered, embeds>>
           /\ CASE o.act = "raise" -> FetchRaise(o.exc)
                [] o.act = "recurse" ->
                     /\ Len(frames) + 1 < cap
                     /\ frames' = Append(frames, o.events)
                     /\ cursor' = o.since
                     /\ UNCHANGED <<pc, all_events, today_events, tomorrow_events,
                                    week_events, printed, error, exit_code>>
                [] o.act = "return" -> FetchReturn(Unwind(Append(frames, o.events)))

(***************************************************************************)
(* get_events on its own, against a server that chunks.                    *)
(***************************************************************************)
Hour == 3600
Monday == 4 * SecondsPerDay      \* 1970-01-05 00:00
Tuesday == 5 * SecondsPerDay

RawEvent(id, title, start_at, end_at) ==
    [id |-> JNum(id), title |-> title, all_day |-> JAbsent, location |-> JAbsent,
     note |-> JAbsent, label_id |-> JNum(1), start_at |-> start_at, end_at |-> end_at]

Ms(sec) == JNum(sec * 1000)

FetchRecords ==
    { RawEvent(1, JStr("Standup"), Ms(Monday + 9 * Hour), Ms(Monday + 10 * Hour)),
      RawEvent(2, JStr("Lunch"), Ms(Tuesday + 12 * Hour), Ms(Tuesday + 13 * Hour)),
      RawEvent(3, JStr("Far"), JHuge, JAbsent) }

Cursors == {JAbsent, JNum(0), JNum(100)}
ChunkFlags == {JAbsent, JBool(FALSE), JBool(TRUE)}

FetchResponses == SyncResponses(SeqUpTo(FetchRecords, MaxChunk), ChunkFlags, Cursors)

\* a scraper that has signed in, and a notifier, with no call made yet
SignedIn ==
    /\ list_mode = FALSE
    /\ now = Dt(Monday + 8 * Hour, 0)
    /\ session_id = JStr("tok")
    /\ cookie = JStr("tok")
    /\ calendar_id = JStr("9")
    /\ frames = <<>>
    /\ cursor = JAbsent
    /\ requests = <<>>
    /\ resp = NoResponse
    /\ chunks = <<>>
    /\ filtered = <<>>
    /\ embeds = <<>>
    /\ printed = {}
    /\ error = ""
    /\ exit_code = -1

\* about to run get_events(calendar_id)
InitFetch ==
    /\ pc = "get_events"
    /\ SignedIn
    /\ all_events = <<>>
    /\ today_events = <<>>
    /\ tomorrow_events = <<>>
    /\ week_events = <<>>

FetchSync == Sync(FetchResponses, MaxCalls)

NextFetch == FetchSync

SpecFetch == InitFetch /\ [][NextFetch]_vars

(***************************************************************************)
(* get_events on its own, against a server whose records carry every kind  *)
(* of timestamp field.                                                     *)
(***************************************************************************)
StartFields ==
    {JAbsent, JNum(0), JNum(1500), Ms(Monday + 9 * Hour), JStr("soon"), JBig, JHuge}
EndFields == {JAbsent, Ms(Monday + 10 * Hour), JStr("late"), JHuge}

NormRecords == {RawEvent(1, JStr("Standup"), s, e) : s \in StartFields, e \in EndFields}

\* a last chunk of up to MaxBatch records, or an empty chunk announcing more
NormResponses ==
    SyncResponses(SeqUpTo(NormRecords, MaxBatch), {JAbsent}, {JAbsent})
    \cup SyncResponses({<<>>}, {JBool(TRUE)}, {JNum(100)})

NormSync == Sync(NormResponses, MaxCalls)

NextNorm == NormSync

SpecNorm == InitFetch /\ [][NextNorm]_vars

(***************************************************************************)
(* The date filter on its own: get_events has returned all_events.         *)
(***************************************************************************)
Event(id, title, all_day, location, start, end) ==
    [id |-> JNum(id), title |-> JStr(title), all_day |-> JBool(all_day),
     location |-> location, description |-> JNull, color |-> JNum(1),
     start |-> start, end |-> end]

\* around the bounds of today's, tomorrow's and the week's window
FilterStarts ==
    { JAbsent, JNull, Dt(Monday - SecondsPerDay, 0), Dt(Monday, 0),
      Dt(Tuesday - 1, 999999), Dt(Tuesday, 0), Dt(Monday + 7 * SecondsPerDay, 0) }
FilterEnds == { JAbsent, Dt(Monday, 0), Dt(Tuesday, 1) }

FilterEvents ==
    {Event(1, "Trip", a, JNull, s, e) : a \in BOOLEAN, s \in FilterStarts, e \in FilterEnds}

InitFilter ==
    /\ pc = "filter"
    /\ SignedIn
    /\ all_events \in SeqUpTo(FilterEvents, MaxFilter)
    /\ today_events = <<>>
    /\ tomorrow_events = <<>>
    /\ week_events = <<>>

FilterVarsUnchanged ==
    UNCHANGED <<list_mode, now, session_id, cookie, calendar_id, frames, cursor,
                requests, resp, chunks, all_events, today_events, tomorrow_events,
                week_events, embeds, printed, error, exit_code>>

\* get_events_for_date(scraper, calendar_id, now)
FilterToday ==
    /\ pc = "filter"
    /\ filtered' = GetEventsForDate(all_events, now)
    /\ pc' = "filtered_today"
    /\ FilterVarsUnchanged

\* get_events_for_date(scraper, calendar_id, now + timedelta(days=1))
FilterTomorrow ==
    /\ pc = "filter"
    /\ filtered' = GetEventsForDate(all_events, AddDays(now, 1))
    /\ pc' = "filtered_tomorrow"
    /\ FilterVarsUnchanged

\* the filter of get_upcoming_events(calendar_id, days=7)
FilterWeek ==
    /\ pc = "filter"
    /\ filtered' = FilterUpcoming(all_events, now, WeekDays)
    /\ pc' = "filtered_week"
    /\ FilterVarsUnchanged

NextFilter == FilterToday \/ FilterTomorrow \/ FilterWeek

SpecFilter == InitFilter /\ [][NextFilter]_vars

(***************************************************************************)
(* The formatters on their own.                                            *)
(***************************************************************************)
\* events in tomorrow's list handed to the daily formatter
MaxTomorrow == 1

RECURSIVE Repeat(_, _)
Repeat(c, n) ==
    IF n = 0 THEN ""
    ELSE IF n % 2 = 0 THEN LET half == Repeat(c, n \div 2) IN half \o half
    ELSE c \o Repeat(c, n - 1)

NineOClock == Dt(Monday + 9 * Hour, 0)
HalfPastNine == Dt(Monday + 9 * Hour + 1800, 0)

\* short events of every kind, two of them with a location, and events
\* whose rendered line is FieldLimit and FieldLimit + 1 characters long
FormatEvents ==
    {Event(1, "Standup", a, JNull, t[1], t[2]) :
        a \in BOOLEAN, t \in {<<JAbsent, JAbsent>>, <<NineOClock, HalfPastNine>>}}
    \cup {Event(1, "Standup", a, JStr("Room 4"), NineOClock, HalfPastNine) : a \in BOOLEAN}
    \cup {Event(2, Repeat("x", FieldLimit - 2), FALSE, JNull, JAbsent, JAbsent),
          Event(3, Repeat("y", FieldLimit - 1), FALSE, JNull, JAbsent, JAbsent)}

InitFormat ==
    /\ pc = "format"
    /\ SignedIn
    /\ all_events = <<>>
    /\ \E a \in SeqUpTo(FormatEvents, MaxFormat), b \in SeqUpTo(FormatEvents, MaxTomorrow) :
          /\ today_events = a
          /\ tomorrow_events = b
          /\ week_events = a \o b

FormatVarsUnchanged ==
    UNCHANGED <<list_mode, now, session_id, cookie, calendar_id, frames, cursor,
                requests, resp, chunks, all_events, today_events, tomorrow_events,
                week_events, filtered, printed, error, exit_code>>

\* notifier._create_daily_embeds(today_events, tomorrow_events, now, tomorrow)
BuildDaily ==
    /\ pc = "format"
    /\ embeds' = CreateDailyEmbeds(today_events, tomorrow_events, now, AddDays(now, 1))
    /\ pc' = "daily_built"
    /\ FormatVarsUnchanged

\* notifier._create_embeds(week_events)
BuildWeekly ==
    /\ pc = "format"
    /\ embeds' = CreateEmbeds(week_events, now)
    /\ pc' = "weekly_built"
    /\ FormatVarsUnchanged

NextFormat == BuildDaily \/ BuildWeekly

SpecFormat == InitFormat /\ [][NextFormat]_vars

(***************************************************************************)
(* One run of main().                                                      *)
(***************************************************************************)
\* login() taking every 200 answer for a success
LoginResultAnyOk(r, sid, ck) ==
    IF r.kind = "error" \/ r.status # 200
    THEN [exc |-> "LoginError", session_id |-> sid, cookie |-> ck]
    ELSE [exc |-> "", session_id |-> Get(r.cookie), cookie |-> Get(r.cookie)]

\* login(): sid and ck are session_id and the session's cookie before the call
LoginResult(r, sid, ck) ==
    IF r.kind = "error"
    THEN [exc |-> "LoginError", session_id |-> sid, cookie |-> ck]
    ELSE IF r.status # 200
    THEN [exc |-> "LoginError", session_id |-> sid, cookie |-> ck]
    ELSE LET got == Get(r.cookie)
         IN IF ~Truthy(got)
            THEN [exc |-> "LoginError", session_id |-> got, cookie |-> ck]
            ELSE [exc |-> "", session_id |-> got, cookie |-> got]

\* get_calendars()
GetCalendarsResult(r) ==
    IF r.kind = "error" THEN [exc |-> "TimeTreeScraperError", calendars |-> <<>>]
    ELSE IF r.status # 200 THEN [exc |-> "TimeTreeScraperError", calendars |-> <<>>]
    ELSE IF ~r.json THEN [exc |-> "TimeTreeScraperError", calendars |-> <<>>]
    ELSE [exc |-> "",
          calendars |-> [i \in 1..Len(r.calendars) |->
                            [id |-> JStr(ToString(r.calendars[i].id.n)),
                             name |-> r.calendars[i].name]]]

\* send_daily_notification() without raise_for_status()
SendDailyResultAnyStatus(r) ==
    IF r.kind = "error" THEN "DiscordNotifierError" ELSE ""

\* send_daily_notification(): response.raise_for_status() raises for a
\* status of 400 to 599, and every RequestException is re-raised typed
SendDailyResult(r) ==
    IF r.kind = "error" THEN "DiscordNotifierError"
    ELSE IF r.status >= 400 /\ r.status < 600 THEN "DiscordNotifierError"
    ELSE ""

\* main(): the bare requests.post of the weekly payload; nothing reads the
\* status, and a transport error reaches `except Exception`
WeeklyPostResult(r) ==
    IF r.kind = "error" THEN "ConnectionError" ELSE ""

LoginResponses ==
    {TransportError} \cup
    {[Response("http", st, TRUE) EXCEPT !.cookie = c] :
        st \in {200, 401}, c \in {JAbsent, JStr(""), JStr("tok")}}

Calendar(id, name) == [id |-> JNum(id), name |-> JStr(name)]

CalendarResponses ==
    FailedResponses \cup
    {[Response("http", 200, TRUE) EXCEPT !.calendars = cs] :
        cs \in {<<>>, <<Calendar(7, "Home")>>, <<Calendar(8, "Work"), Calendar(7, "Home")>>}}

PostResponses ==
    {TransportError, Response("http", 204, FALSE), Response("http", 404, FALSE),
     Response("http", 500, FALSE)}

\* what the calendar server holds during a run
RunRecords ==
    { RawEvent(1, JStr("Standup"), Ms(Tuesday + 9 * Hour), Ms(Tuesday + 10 * Hour)),
      RawEvent(3, JStr("Far"), JHuge, JAbsent) }

RunResponses ==
    SyncResponses({<<>>} \cup {<<e>> : e \in RunRecords}, {JAbsent, JBool(TRUE)},
                  {JNum(100)})

\* sync calls one get_events call of a run may make
MaxRunCalls == 2

Init ==
    /\ pc = "login"
    /\ list_mode \in BOOLEAN
    /\ now \in {Dt(Monday + 8 * Hour, 0), Dt(Tuesday + 8 * Hour, 0)}
    /\ session_id = JNull
    /\ cookie = JAbsent
    /\ calendar_id \in {JNull, JStr("9")}
    /\ frames = <<>>
    /\ cursor = JAbsent
    /\ requests = <<>>
    /\ resp = NoResponse
    /\ chunks = <<>>
    /\ all_events = <<>>
    /\ today_events = <<>>
    /\ tomorrow_events = <<>>
    /\ week_events = <<>>
    /\ filtered = <<>>
    /\ embeds = <<>>
    /\ printed = {}
    /\ error = ""
    /\ exit_code = -1

\* scraper.login()
Login ==
    /\ pc = "login"
    /\ \E r \in LoginResponses :
        LET o == LoginResult(r, session_id, cookie)
        IN /\ resp' = r
           /\ requests' = Append(requests,
                              [op |-> "signin", calendar |-> JAbsent, since |-> JAbsent,
                               cookie |-> JAbsent])
           /\ session_id' = o.session_id
           /\ cookie' = o.cookie
           /\ IF o.exc # ""
              THEN Fail(o.exc) /\ UNCHANGED printed
              ELSE /\ UNCHANGED <<error, exit_code>>
                   /\ IF list_mode
                      THEN pc' = "list_calendars" /\ UNCHANGED printed
                      ELSE /\ printed' = printed \cup {"Login successful"}
                           /\ pc' = IF ~Truthy(calendar_id) THEN "calendars" ELSE "today"
    /\ UNCHANGED <<list_mode, now, calendar_id, frames, cursor, chunks, all_events,
                   today_events, tomorrow_events, week_events, filtered, embeds>>

\* main(): calendars = scraper.get_calendars(), when no calendar id is configured
SelectCalendar ==
    /\ pc = "calendars"
    /\ \E r \in CalendarResponses :
        LET o == GetCalendarsResult(r)
        IN /\ resp' = r
           /\ requests' = Append(requests,
                              [op |-> "calendars", calendar |-> JAbsent, since |-> JAbsent,
                               cookie |-> cookie])
           /\ IF o.exc # ""
              THEN Fail(o.exc) /\ UNCHANGED calendar_id
              ELSE IF o.calendars = <<>>
              THEN Fail("SystemExit") /\ UNCHANGED calendar_id
              ELSE /\ calendar_id' = o.calendars[1].id
                   /\ pc' = "today"
                   /\ UNCHANGED <<error, exit_code>>
    /\ UNCHANGED <<list_mode, now, session_id, cookie, frames, cursor, chunks,
                   all_events, today_events, tomorrow_events, week_events,
                   filtered, embeds, printed>>

\* main() with --list: list_calendars(scraper), then return
ListCalendars ==
    /\ pc = "list_calendars"
    /\ \E r \in CalendarResponses :
        LET o == GetCalendarsResult(r)
        IN /\ resp' = r
           /\ requests' = Append(requests,
                              [op |-> "calendars", calendar |-> JAbsent, since |-> JAbsent,
                               cookie |-> cookie])
           /\ IF o.exc # ""
              THEN Fail(o.exc) /\ UNCHANGED printed
              ELSE /\ printed' = printed \cup {"Available Calendars"}
                   /\ pc' = "exit"
                   /\ exit_code' = 0
                   /\ UNCHANGED error
    /\ UNCHANGED <<list_mode, now, session_id, cookie, calendar_id, frames, cursor,
                   chunks, all_events, today_events, tomorrow_events, week_events,
                   filtered, embeds>>

\* the get_events calls of a run: get_events_for_date twice, and on Monday
\* get_upcoming_events, which main() always gives a calendar id
RunSync == pc # "get_events" /\ Sync(RunResponses, MaxRunCalls)

\* notifier.send_daily_notification(...), then the Monday test
SendDaily ==
    /\ pc = "daily"
    /\ \E r \in PostResponses :
        LET exc == SendDailyResult(r)
        IN /\ resp' = r
           /\ embeds' = CreateDailyEmbeds(today_events, tomorrow_events, now,
                                          AddDays(now, 1))
           /\ requests' = Append(requests,
                              [op |-> "post", calendar |-> JAbsent, since |-> JAbsent,
                               cookie |-> JAbsent])
           /\ IF exc # ""
              THEN Fail(exc) /\ UNCHANGED printed
              ELSE IF Weekday(now) = 0
              THEN pc' = "week" /\ UNCHANGED <<printed, error, exit_code>>
              ELSE /\ printed' = printed \cup {"Notification sent successfully", "Done!"}
                   /\ pc' = "exit"
                   /\ exit_code' = 0
                   /\ UNCHANGED error
    /\ UNCHANGED <<list_mode, now, session_id, cookie, calendar_id, frames, cursor,
                   chunks, all_events, today_events, tomorrow_events, week_events,
                   filtered>>

\* main() on Monday: build the weekly payload and requests.post it
WeeklyPost ==
    /\ pc = "weekly_post"
    /\ \E r \in PostResponses :
        LET exc == WeeklyPostResult(r)
        IN /\ resp' = r
           /\ embeds' = WeeklyEmbeds(week_events, now)
           /\ requests' = Append(requests,
                              [op |-> "post", calendar |-> JAbsent, since |-> JAbsent,
                               cookie |-> JAbsent])
           /\ IF exc # ""
              THEN Fail(exc) /\ UNCHANGED printed
              ELSE /\ printed' = printed \cup {"Weekly notification sent",
                                               "Notification sent successfully", "Done!"}
                   /\ pc' = "exit"
                   /\ exit_code' = 0
                   /\ UNCHANGED error
    /\ UNCHANGED <<list_mode, now, session_id, cookie, calendar_id, frames, cursor,
                   chunks, all_events, today_events, tomorrow_events, week_events,
                   filtered>>

Next ==
    \/ Login
    \/ SelectCalendar
    \/ ListCalendars
    \/ RunSync
    \/ SendDaily
    \/ WeeklyPost

Spec == Init /\ [][Next]_vars

(***************************************************************************)
(* _create_embeds on its own, on lists whose events lie on several dates.  *)
(***************************************************************************)
\* events in a list handed to _create_embeds
MaxWeekly == 3

Sunday == 3 * SecondsPerDay      \* 1970-01-04 00:00

\* events of the day before today, of today and of tomorrow, with and
\* without a start, and one whose rendered line exceeds FieldLimit
WeeklyEvents ==
    { Event(1, "Brunch", FALSE, JNull, Dt(Sunday + 10 * Hour, 0), Dt(Sunday + 11 * Hour, 0)),
      Event(2, "Standup", FALSE, JNull, NineOClock, HalfPastNine),
      Event(3, "Review", FALSE, JStr("Room 4"), HalfPastNine, Dt(Monday + 10 * Hour, 0)),
      Event(4, "Trip", TRUE, JNull, Dt(Tuesday, 0), Dt(Tuesday + SecondsPerDay, 0)),
      Event(5, "Floating", FALSE, JNull, JAbsent, JAbsent),
      Event(6, Repeat("y", FieldLimit - 1), FALSE, JNull, JNull, JNull) }

InitWeekly ==
    /\ pc = "format"
    /\ SignedIn
    /\ all_events = <<>>
    /\ today_events = <<>>
    /\ tomorrow_events = <<>>
    /\ week_events \in SeqUpTo(WeeklyEvents, MaxWeekly)

NextWeekly == BuildWeekly

SpecWeekly == InitWeekly /\ [][NextWeekly]_vars

(***************************************************************************)
(* get_upcoming_events on its own, called by a signed-in scraper with or   *)
(* without a calendar id.                                                  *)
(***************************************************************************)
\* the calendar resolution of get_upcoming_events taking the last calendar
ResolveCalendarLast(r) ==
    LET o == GetCalendarsResult(r)
    IN IF o.exc # "" THEN [exc |-> o.exc, calendar_id |-> JNull]
       ELSE IF o.calendars = <<>>
            THEN [exc |-> "CalendarNotFoundError", calendar_id |-> JNull]
            ELSE [exc |-> "", calendar_id |-> o.calendars[Len(o.calendars)].id]

\* get_upcoming_events, the branch `if not calendar_id`: r is the answer to
\* the request of get_calendars
ResolveCalendar(r) ==
    LET o == GetCalendarsResult(r)
    IN IF o.exc # "" THEN [exc |-> o.exc, calendar_id |-> JNull]
       ELSE IF o.calendars = <<>>
            THEN [exc |-> "CalendarNotFoundError", calendar_id |-> JNull]
            ELSE [exc |-> "", calendar_id |-> o.calendars[1].id]

\* the calendar_id argument: None (the default), an empty string, or an id
UpcomingArguments == {JNull, JStr(""), JStr("9")}

\* about to run get_upcoming_events(calendar_id, days=7)
InitUpcoming ==
    /\ pc = "upcoming"
    /\ list_mode = FALSE
    /\ now = Dt(Monday + 8 * Hour, 0)
    /\ session_id = JStr("tok")
    /\ cookie = JStr("tok")
    /\ calendar_id \in UpcomingArguments
    /\ frames = <<>>
    /\ cursor = JAbsent
    /\ requests = <<>>
    /\ resp = NoResponse
    /\ chunks = <<>>
    /\ all_events = <<>>
    /\ today_events = <<>>
    /\ tomorrow_events = <<>>
    /\ week_events = <<>>
    /\ filtered = <<>>
    /\ embeds = <<>>
    /\ printed = {}
    /\ error = ""
    /\ exit_code = -1

\* get_upcoming_events: calendars = self.get_calendars() and the choice of
\* calendars[0], when the argument is falsy
UpcomingCalendars ==
    /\ pc = "upcoming"
    /\ ~Truthy(calendar_id)
    /\ \E r \in CalendarResponses :
        LET o == ResolveCalendar(r)
        IN /\ resp' = r
           /\ requests' = Append(requests,
                              [op |-> "calendars", calendar |-> JAbsent, since |-> JAbsent,
                               cookie |-> cookie])
           /\ IF o.exc # ""
              THEN pc' = "raised" /\ error' = o.exc /\ UNCHANGED calendar_id
              ELSE calendar_id' = o.calendar_id /\ UNCHANGED <<pc, error>>
    /\ UNCHANGED <<list_mode, now, session_id, cookie, frames, cursor, chunks,
                   all_events, today_events, tomorrow_events, week_events,
                   filtered, embeds, printed, exit_code>>

\* get_upcoming_events: all_events = self.get_events(calendar_id), then the
\* filter
UpcomingSync ==
    /\ pc = "upcoming"
    /\ Truthy(calendar_id)
    /\ Sync(FetchResponses, MaxCalls)

NextUpcoming == UpcomingCalendars \/ UpcomingSync

SpecUpcoming == InitUpcoming /\ [][NextUpcoming]_vars

(***************************************************************************)
(* get_events on its own, against a server that may chunk without end.     *)
(* _get_events_recursive calls itself once per chunk, so every chunk costs  *)
(* one interpreter frame; the interpreter refuses a call beyond its         *)
(* recursion limit by raising RecursionError (a RuntimeError), which no     *)
(* handler of get_events or _get_events_recursive catches.                  *)
(***************************************************************************)
\* chunks a call chain can hold before the interpreter's recursion limit
\* (sys.getrecursionlimit(), 1000 unless changed) is reached; scaled down
RecursionLimit == 3

LoopRecords ==
    { RawEvent(1, JStr("Standup"), Ms(Monday + 9 * Hour), Ms(Monday + 10 * Hour)),
      RawEvent(2, JStr("Lunch"), Ms(Tuesday + 12 * Hour), Ms(Tuesday + 13 * Hour)) }

LoopResponses ==
    SyncResponses(SeqUpTo(LoopRecords, MaxChunk), ChunkFlags, {JAbsent, JNum(100)})

\* the answer r asks for one more recursive call than the interpreter allows
AtRecursionLimit(r) ==
    LET o == IF frames = <<>> THEN GetEventsStep(r) ELSE RecursiveStep(r)
    IN o.act = "recurse" /\ Len(frames) + 1 >= RecursionLimit

\* the sync call answered by r, followed by the refused recursive call:
\* RecursionError leaves every frame of the call chain and get_events
RecursionOverflow(r) ==
    /\ pc \in FetchPcs
    /\ resp' = r
    /\ requests' = Append(requests,
                       [op |-> "sync", calendar |-> calendar_id, since |-> cursor,
                        cookie |-> cookie])
    /\ chunks' = IF frames = <<>> THEN <<r.events>> ELSE Append(chunks, r.events)
    /\ FetchRaise("RecursionError")
    /\ UNCHANGED <<list_mode, now, session_id, cookie, calendar_id, filtered, embeds>>

\* one sync call of get_events in an interpreter with a recursion limit
LoopSync ==
    \E r \in LoopResponses :
        IF AtRecursionLimit(r)
        THEN RecursionOverflow(r)
        ELSE Sync({r}, RecursionLimit)

NextLoop == LoopSync

SpecLoop == InitFetch /\ [][NextLoop]_vars

(***************************************************************************)
(* Claims.                                                                 *)
(***************************************************************************)
\* the events of the chunks bs, each normalized, in the order received
RECURSIVE EventsOfChunks(_)
EventsOfChunks(bs) ==
    IF bs = <<>> THEN <<>>
    ELSE NormalizeBatch(Head(bs)).events \o EventsOfChunks(Tail(bs))

FetchOver == pc \in {"returned", "raised"}

\* C1: when the initial sync call of get_events fails (transport error,
\* non-200 status, unparseable body) get_events raises TimeTreeScraperError;
\* when a continuation call fails get_events raises nothing and returns
\* exactly the events of the chunks received before it, in order.
C1_InitialFatalContinuationTruncates ==
    (FetchOver /\ IsFailure(resp)) =>
        IF Len(requests) = 1
        THEN pc = "raised" /\ error = "TimeTreeScraperError"
        ELSE /\ pc = "returned"
             /\ error = ""
             /\ Len(chunks) = Len(requests) - 1
             /\ all_events = EventsOfChunks(chunks)

\* two chunks of one event each were received, then the third call failed
C1_Witness ==
    /\ pc = "returned"
    /\ resp = TransportError
    /\ Len(requests) = 3
    /\ Len(all_events) = 2
    /\ all_events[1].id # all_events[2].id

\* the raw records of the chunks bs, in the order received
RECURSIVE RecordsOfChunks(_)
RecordsOfChunks(bs) ==
    IF bs = <<>> THEN <<>> ELSE Head(bs) \o RecordsOfChunks(Tail(bs))

\* a timestamp field of the wrong type, or a number no instant stands for
Malformed(v) == v.j \in {"str", "big", "huge"}

OtherFieldsFilled(raw, event) ==
    /\ event.id = raw.id
    /\ event.title = raw.title
    /\ event.all_day = JBool(FALSE)
    /\ event.color = raw.label_id

\* C2: a malformed start_at or end_at, in the initial chunk or a
\* continuation chunk, raises nothing: the event has None for that field,
\* its other fields are filled, and every record of the batch is returned.
C2_MalformedTimestampNeverRaises ==
    (FetchOver /\ chunks # <<>>) =>
        LET raws == RecordsOfChunks(chunks)
        IN /\ pc = "returned"
           /\ Len(all_events) = Len(raws)
           /\ \A i \in 1..Len(raws) :
                /\ OtherFieldsFilled(raws[i], all_events[i])
                /\ Malformed(raws[i].start_at) => Get(all_events[i].start) = JNull
                /\ Malformed(raws[i].end_at) => Get(all_events[i].end) = JNull

\* the instant ms milliseconds after the epoch
InstantOfMs(ms) == Dt(ms \div 1000, (ms % 1000) * 1000)

\* C3: every present millisecond timestamp, 0 included, normalizes to the
\* instant start_at/1000 seconds after the epoch, and a record without
\* start_at to an event whose start is None.
C3_PresentTimestampIsInstant ==
    pc = "returned" =>
        LET raws == RecordsOfChunks(chunks)
        IN \A i \in 1..Len(raws) :
              /\ i <= Len(all_events)
              /\ raws[i].start_at.j = "num" =>
                    all_events[i].start = InstantOfMs(raws[i].start_at.n)
              /\ raws[i].start_at = JAbsent => Get(all_events[i].start) = JNull

LastRequest == requests[Len(requests)]

\* the sign-in answer is a 200 that carries a non-empty session token
GoodSignIn(r) ==
    r.kind = "http" /\ r.status = 200 /\ r.cookie.j = "str" /\ r.cookie.s # ""

\* C4: login succeeds only on a 200 answer that carries a non-empty session
\* token; a non-200 status, a 200 without token and a transport error each
\* raise LoginError, and then no token is attached to the session.
C4_LoginNeedsStatusAndToken ==
    /\ error = "LoginError" => (cookie = JAbsent /\ Len(requests) = 1)
    /\ Len(requests) = 1 =>
          IF GoodSignIn(resp)
          THEN error = "" /\ pc # "exit" /\ cookie = resp.cookie
          ELSE error = "LoginError" /\ pc = "exit" /\ exit_code = 1 /\ cookie = JAbsent

\* a 200 answer without a session token has ended the run with LoginError
C4_Witness ==
    /\ Len(requests) = 1
    /\ resp.kind = "http" /\ resp.status = 200 /\ resp.cookie = JAbsent
    /\ error = "LoginError"
    /\ cookie = JAbsent

\* the webhook answered with no success status, or the transport failed
PostFailed(r) == r.kind = "error" \/ r.status < 200 \/ r.status > 299

\* C8: every webhook POST of a run (daily, and weekly on Monday) that meets
\* a non-success status or a transport error raises DiscordNotifierError and
\* fails the run, and the run does not report the notification as sent.
C8_FailedPostFailsRun ==
    (requests # <<>> /\ LastRequest.op = "post" /\ PostFailed(resp)) =>
        /\ error = "DiscordNotifierError"
        /\ exit_code = 1
        /\ "Weekly notification sent" \notin printed
        /\ "Notification sent successfully" \notin printed

\* C8 for the daily POST alone
C8_DailyPostFailsRun ==
    (Len(SelectSeq(requests, LAMBDA q : q.op = "post")) = 1
        /\ LastRequest.op = "post" /\ PostFailed(resp)) =>
        /\ error = "DiscordNotifierError"
        /\ exit_code = 1
        /\ "Notification sent successfully" \notin printed

\* the steps of a run as seen on the wire: a sync call without cursor starts
\* a fetch, continuation calls belong to the fetch before them
StepOf(q) ==
    IF q.op = "sync" THEN (IF q.since = JAbsent THEN "fetch" ELSE "more") ELSE q.op

Steps == [i \in 1..Len(requests) |-> StepOf(requests[i])]

MainSteps == SelectSeq(Steps, LAMBDA t : t # "more")

IsPrefix(a, b) == Len(a) <= Len(b) /\ a = SubSeq(b, 1, Len(a))

\* the orders main() allows
RunOrders ==
    { <<"signin", "calendars">>,
      <<"signin", "fetch", "fetch", "post", "fetch", "post">>,
      <<"signin", "calendars", "fetch", "fetch", "post", "fetch", "post">> }

\* the step whose answer is resp has failed
StepFailed ==
    /\ requests # <<>>
    /\ CASE LastRequest.op = "signin" -> ~GoodSignIn(resp)
         [] LastRequest.op = "calendars" ->
                IsFailure(resp) \/ (~list_mode /\ resp.calendars = <<>>)
         [] LastRequest.op = "sync" ->
                \/ LastRequest.since = JAbsent /\ IsFailure(resp)
                \/ ~IsFailure(resp) /\ \E i \in 1..Len(resp.events) :
                      JHuge \in {resp.events[i].start_at, resp.events[i].end_at}
         [] LastRequest.op = "post" -> PostFailed(resp)

OrderKept ==
    /\ \E o \in RunOrders : IsPrefix(MainSteps, o)
    /\ \A i \in 1..Len(Steps) :
          /\ Steps[i] = "more" => (i > 1 /\ Steps[i - 1] \in {"fetch", "more"})
          /\ Steps[i] \in {"calendars", "fetch", "more"} =>
                (Steps[1] = "signin" /\ requests[i].cookie = JStr("tok")
                 /\ cookie = JStr("tok"))
          /\ Steps[i] = "post" => IsPrefix(<<"fetch", "fetch">>,
                SelectSeq(SubSeq(MainSteps, 1, Len(MainSteps)), LAMBDA t : t = "fetch"))
    /\ (exit_code = 0 /\ ~list_mode) => LastRequest.op = "post"

\* C10: the steps of a run keep the order sign in, select calendar, fetch,
\* filter, format, send: no calendar or event request before a successful
\* sign-in, no POST unless sign-in and the fetches before it succeeded, and
\* no step after a failed one.
C10_StrictOrder ==
    /\ []OrderKept
    /\ [][requests' # requests => ~StepFailed]_vars
    /\ [][(error # "" \/ exit_code # -1) => UNCHANGED vars]_vars

\* a Monday run that selected the calendar and sent both digests
C10_Witness ==
    /\ exit_code = 0
    /\ MainSteps = <<"signin", "calendars", "fetch", "fetch", "post", "fetch", "post">>
    /\ \E i \in 1..Len(Steps) : Steps[i] = "more"

HasStart(e) == e.start.j = "dt"
HasEnd(e) == e.end.j = "dt"
IsAllDay(e) == e.all_day = JBool(TRUE)

\* the window the filter was asked for
WindowStart == IF pc = "filtered_tomorrow" THEN Dt(Tuesday, 0) ELSE Dt(Monday, 0)
WindowEnd ==
    CASE pc = "filtered_today" -> Dt(Tuesday, 0)
      [] pc = "filtered_tomorrow" -> Dt(Tuesday + SecondsPerDay, 0)
      [] OTHER -> Dt(Monday + 7 * SecondsPerDay, 0)

FilterDone == pc \in {"filtered_today", "filtered_tomorrow", "filtered_week"}

\* the rule of the specification for one event
InWindow(e) ==
    /\ HasStart(e)
    /\ \/ ~DtLess(e.start, WindowStart) /\ DtLess(e.start, WindowEnd)
       \/ /\ IsAllDay(e)
          /\ ~DtLess(WindowEnd, e.start)
          /\ HasEnd(e)
          /\ DtLess(WindowStart, e.end)

C6_ReturnedEventsStartBeforeWindowEnd ==
    FilterDone => \A i \in 1..Len(filtered) : DtLess(filtered[i].start, WindowEnd)

\* the text of a field before it is cut
RenderedTexts ==
    IF pc = "daily_built"
    THEN << JoinEvents(today_events), JoinEvents(tomorrow_events) >>
    ELSE LET sorted == SortedByStart(week_events)
             dates == {DateKey(sorted[i], now) : i \in 1..Len(sorted)}
             Rank(d) == Cardinality({o \in dates : o <= d})
         IN [k \in 1..Cardinality(dates) |->
                JoinEvents(SelectSeq(sorted,
                    LAMBDA e : Rank(DateKey(e, now)) = k))]

\* the field values emitted, one per rendered text ("" for an empty block)
FieldValues ==
    IF pc = "daily_built"
    THEN [k \in 1..2 |-> IF "fields" \in DOMAIN embeds[k]
                         THEN embeds[k].fields[1].value ELSE ""]
    ELSE IF embeds = <<>> THEN <<>>
    ELSE [k \in 1..Len(embeds[1].fields) |-> embeds[1].fields[k].value]

FormatDone == pc \in {"daily_built", "weekly_built"}

EndsWithEllipsis(v) ==
    Len(v) >= Len(Ellipsis) /\ SubSeq(v, Len(v) - Len(Ellipsis) + 1, Len(v)) = Ellipsis

\* C7 as stated: a field whose rendered text exceeds 1024 characters is
\* emitted 1024 characters long, ending with the ellipsis marker; a shorter
\* text is emitted unchanged.
C7_TruncatedFieldIs1024Long ==
    FormatDone =>
        /\ Len(FieldValues) = Len(RenderedTexts)
        /\ \A k \in 1..Len(RenderedTexts) :
              IF Len(RenderedTexts[k]) > FieldLimit
              THEN Len(FieldValues[k]) = FieldLimit /\ EndsWithEllipsis(FieldValues[k])
              ELSE FieldValues[k] = RenderedTexts[k]

\* C7 amended: a field whose rendered text exceeds 1024 characters is
\* emitted 1023 characters long, its first 1020 characters followed by the
\* three-character marker; a text of at most 1024 characters is unchanged.
C7_TruncatedFieldIs1023Long ==
    FormatDone =>
        /\ Len(FieldValues) = Len(RenderedTexts)
        /\ \A k \in 1..Len(RenderedTexts) :
              IF Len(RenderedTexts[k]) > FieldLimit
              THEN /\ Len(FieldValues[k]) = FieldLimit - 1
                   /\ EndsWithEllipsis(FieldValues[k])
                   /\ SubSeq(FieldValues[k], 1, FieldLimit - 4)
                         = SubSeq(RenderedTexts[k], 1, FieldLimit - 4)
              ELSE FieldValues[k] = RenderedTexts[k]

\* a daily field cut from a text of 1025 characters, beside one of exactly
\* 1024 characters left as it is
C7_Witness ==
    /\ pc = "daily_built"
    /\ Len(RenderedTexts[1]) = FieldLimit + 1
    /\ Len(FieldValues[1]) = FieldLimit - 1
    /\ Len(RenderedTexts[2]) = FieldLimit
    /\ FieldValues[2] = RenderedTexts[2]

\* HH:MM of an instant
Clock(dt) ==
    LET minutes == (dt.sec % SecondsPerDay) \div 60
        h == minutes \div 60
        m == minutes % 60
    IN ToString(h \div 10) \o ToString(h % 10) \o ":"
       \o ToString(m \div 10) \o ToString(m % 10)

\* the one line the specification renders for an event
LineOf(e) ==
    CASE IsAllDay(e) -> "* AD - " \o e.title.s
      [] ~IsAllDay(e) /\ HasStart(e) /\ HasEnd(e) ->
            "* " \o Clock(e.start) \o " - " \o Clock(e.end) \o " " \o e.title.s
      [] OTHER -> "* " \o e.title.s

\* the line of an event, and its location line when it has a location
EntryOf(e) ==
    IF e.location.j = "str" /\ e.location.s # ""
    THEN LineOf(e) \o "\n  @ " \o e.location.s
    ELSE LineOf(e)

\* the texts Render(e) of the events es, one after the other, newline between
RECURSIVE Joined(_, _)
Joined(Render(_), es) ==
    IF es = <<>> THEN ""
    ELSE IF Len(es) = 1 THEN Render(es[1])
    ELSE Joined(Render, SubSeq(es, 1, Len(es) - 1)) \o "\n" \o Render(es[Len(es)])

\* a text longer than 1024 characters cut to 1020 characters and the marker
CutText(t) == IF Len(t) > FieldLimit THEN SubSeq(t, 1, FieldLimit - 4) \o "..." ELSE t

\* the block is the populated block of the events es with field text t
IsPopulatedBlock(b, t) ==
    /\ DOMAIN b = {"title", "color", "fields", "footer"}
    /\ b.color = AccentColor
    /\ Len(b.fields) = 1
    /\ b.fields[1].value = t

IsEmptyBlock(b) ==
    /\ DOMAIN b = {"title", "description", "color", "footer"}
    /\ b.color = SuccessColor
    /\ b.description = NoEventsText

TwoBlocks ==
    /\ Len(embeds) = 2
    /\ SubSeq(embeds[1].title, 1, 5) = "Today"
    /\ SubSeq(embeds[2].title, 1, 8) = "Tomorrow"

\* C9 as stated: the daily payload has two blocks, today's then tomorrow's,
\* each decided by its own list: a non-empty list gives the accent color
\* and one field holding one rendered line per event, an empty list the
\* success color, the "no events" description and no fields.
C9_OneLinePerEvent ==
    pc = "daily_built" =>
        /\ TwoBlocks
        /\ IF today_events # <<>>
           THEN IsPopulatedBlock(embeds[1], Joined(LineOf, today_events))
           ELSE IsEmptyBlock(embeds[1])
        /\ IF tomorrow_events # <<>>
           THEN IsPopulatedBlock(embeds[2], Joined(LineOf, tomorrow_events))
           ELSE IsEmptyBlock(embeds[2])

\* C9 amended: as above, but the one field holds, in input order and joined
\* by newlines, one entry per event: its rendered line, followed by an
\* indented location line when the event has a location; and the text is cut
\* to its first 1020 characters and "..." when it exceeds 1024 characters.
C9_OneEntryPerEvent ==
    pc = "daily_built" =>
        /\ TwoBlocks
        /\ IF today_events # <<>>
           THEN IsPopulatedBlock(embeds[1], CutText(Joined(EntryOf, today_events)))
           ELSE IsEmptyBlock(embeds[1])
        /\ IF tomorrow_events # <<>>
           THEN IsPopulatedBlock(embeds[2], CutText(Joined(EntryOf, tomorrow_events)))
           ELSE IsEmptyBlock(embeds[2])

\* the empty-day scenario: nothing today, one timed event tomorrow
C9_Witness ==
    /\ pc = "daily_built"
    /\ today_events = <<>>
    /\ IsEmptyBlock(embeds[1])
    /\ Len(tomorrow_events) = 1
    /\ IsPopulatedBlock(embeds[2], "* 09:00 - 09:30 Standup")

\* get_upcoming_events has just been entered
UpcomingEntered == pc = "upcoming" /\ requests = <<>>

\* the id get_calendars gives the first calendar of the answer r
FirstCalendarId(r) == JStr(ToString(r.calendars[1].id.n))

\* every event fetch so far asked for the calendar now selected, and the
\* only list-calendars call is the first request
FetchesSelectedCalendar ==
    \A i \in 1..Len(requests) :
        /\ requests[i].op \in {"calendars", "sync"}
        /\ requests[i].op = "calendars" => i = 1
        /\ requests[i].op = "sync" =>
              (Truthy(calendar_id) /\ requests[i].calendar = calendar_id)

\* C11: get_upcoming_events called with no calendar id lists the calendars
\* and fetches the events of the first calendar of the list; when the list
\* is empty it raises CalendarNotFoundError and issues no event fetch; when
\* a calendar id is given it issues no list-calendars call and fetches the
\* events of that calendar.
C11_CalendarResolution ==
    /\ [][(UpcomingEntered /\ ~Truthy(calendar_id)) =>
            /\ Len(requests') = 1
            /\ requests'[1].op = "calendars"
            /\ ~IsFailure(resp') =>
                  IF resp'.calendars = <<>>
                  THEN pc' = "raised" /\ error' = "CalendarNotFoundError"
                  ELSE pc' = "upcoming" /\ error' = ""
                       /\ calendar_id' = FirstCalendarId(resp')]_vars
    /\ [][(UpcomingEntered /\ Truthy(calendar_id)) =>
            /\ Len(requests') = 1
            /\ requests'[1].op = "sync"
            /\ requests'[1].calendar = calendar_id]_vars
    /\ [][calendar_id' # calendar_id => UpcomingEntered]_vars
    /\ [](FetchesSelectedCalendar
          /\ (error = "CalendarNotFoundError" =>
                (Len(requests) = 1 /\ requests[1].op = "calendars")))

\* no id was given, the list held two calendars, and the events of the
\* first of them were fetched and returned
C11_Witness ==
    /\ pc = "returned"
    /\ Len(requests) = 2
    /\ requests[1].op = "calendars"
    /\ requests[2].op = "sync"
    /\ requests[2].calendar = JStr("8")

\* the step puts a continuation sync call on the wire
ContinuationIssued ==
    /\ Len(requests') = Len(requests) + 1
    /\ requests'[Len(requests')].op = "sync"
    /\ requests'[Len(requests')].since # JAbsent

\* the answer r has chunk == true and carries a since cursor
ChunkWithCursor(r) ==
    /\ ~IsFailure(r)
    /\ r.chunk = JBool(TRUE)
    /\ r.since.j \notin {"absent", "null"}

\* C12: within one get_events call every continuation sync call, the first
\* and every later one, is issued only when the response just before it had
\* chunk == true and a since cursor, and carries exactly that cursor as its
\* since parameter.
C12_ContinuationCarriesCursor ==
    [][ContinuationIssued =>
          /\ ChunkWithCursor(resp)
          /\ requests'[Len(requests')].since = resp.since]_vars

\* C12 for the first continuation call alone
C12_FirstContinuationCarriesCursor ==
    [][(ContinuationIssued /\ Len(requests) = 1) =>
          /\ ChunkWithCursor(resp)
          /\ requests'[Len(requests')].since = resp.since]_vars

\* the answer r lacks chunk == true, or the call failed
LastChunk(r) == IsFailure(r) \/ r.chunk # JBool(TRUE)

\* get_events is over at the first answer that fails or lacks chunk == true,
\* and no sync call follows the end of the call
C13_EndsAtLastChunk ==
    /\ []((requests # <<>> /\ LastChunk(resp)) => FetchOver)
    /\ [][FetchOver => requests' = requests]_vars

\* every call so far was answered with chunk == true and a cursor: each
\* continuation call carries the cursor of the answer before it
AlwaysChunked ==
    /\ requests # <<>>
    /\ ChunkWithCursor(resp)
    /\ \A i \in 2..Len(requests) : requests[i].since.j \notin {"absent", "null"}

\* C13: get_events terminates, by returning a list or raising, at the first
\* answer that fails or lacks chunk == true, and issues no sync call after
\* it; as long as the server answers every call with chunk == true and a
\* cursor the call does not complete by itself.
C13_EndsOnlyAtLastChunk ==
    /\ []((requests # <<>> /\ LastChunk(resp)) => FetchOver)
    /\ [][FetchOver => requests' = requests]_vars
    /\ [](AlwaysChunked => ~FetchOver)

\* the date whose field an event belongs to, in days since the epoch
BucketDate(e) ==
    IF HasStart(e) THEN e.start.sec \div SecondsPerDay ELSE now.sec \div SecondsPerDay

BucketDates == {BucketDate(week_events[i]) : i \in 1..Len(week_events)}

\* the k-th date in ascending order
KthDate(k) == CHOOSE d \in BucketDates : Cardinality({o \in BucketDates : o <= d}) = k

\* the name of the field of date d (January 1970; the epoch was a Thursday)
DateFieldName(d) ==
    "date 1m" \o ToString(d + 1) \o "d ("
    \o <<"Thu", "Fri", "Sat", "Sun", "Mon", "Tue", "Wed">>[(d % 7) + 1] \o ")"

\* a may stand before b: an event without a start stands first, the others
\* in ascending order of start
StartsNoLater(a, b) == ~HasStart(a) \/ (HasStart(b) /\ ~DtLess(b.start, a.start))

\* field is the field of date d: it is named after d and its value is the
\* text of the input events of that date, each once, in start order; cut
\* says whether a text above the limit is cut
IsDateField(field, d, cut) ==
    LET bucket == {i \in 1..Len(week_events) : BucketDate(week_events[i]) = d}
        n == Cardinality(bucket)
    IN /\ field.name = DateFieldName(d)
       /\ \E f \in [1..n -> bucket] :
             /\ \A i, j \in 1..n : f[i] = f[j] => i = j
             /\ \A j \in 1..(n - 1) :
                   StartsNoLater(week_events[f[j]], week_events[f[j + 1]])
             /\ LET text == Joined(EntryOf, [j \in 1..n |-> week_events[f[j]]])
                IN field.value = IF cut THEN CutText(text) ELSE text

\* one block whose fields are the date fields, in ascending order of date
WeeklyGrouped(cut) ==
    /\ Len(embeds) = 1
    /\ Len(embeds[1].fields) = Cardinality(BucketDates)
    /\ \A k \in 1..Len(embeds[1].fields) :
          IsDateField(embeds[1].fields[k], KthDate(k), cut)

\* C14 as stated: for every non-empty event list the weekly digest renders
\* each input event in exactly one field, the field of the date of its
\* start, or of today's date when it has no start; the fields are in
\* ascending date order and the events of a field in ascending start order,
\* events without a start first.
C14_EachEventInItsDateField ==
    (pc = "weekly_built" /\ week_events # <<>>) => WeeklyGrouped(FALSE)

\* C14 amended: as above, where the text of a field, the entries of its
\* events joined by newlines, is cut to its first 1020 characters and "..."
\* when it exceeds 1024 characters, so that the events beyond the cut are
\* rendered in part or not at all.
C14_EachEventInItsDateFieldCut ==
    (pc = "weekly_built" /\ week_events # <<>>) => WeeklyGrouped(TRUE)

\* today's event, an event without a start and yesterday's event, given in
\* that order, come out as yesterday's field and today's field, the event
\* without a start first
C14_Witness ==
    /\ pc = "weekly_built"
    /\ Len(week_events) = 3
    /\ week_events[1].title = JStr("Standup")
    /\ week_events[2].title = JStr("Floating")
    /\ week_events[3].title = JStr("Brunch")
    /\ Len(embeds[1].fields) = 2
    /\ embeds[1].fields[1].value = "* 10:00 - 11:00 Brunch"
    /\ embeds[1].fields[2].value = "* Floating\n* 09:00 - 09:30 Standup"

====
